---------------------------- MODULE Spec2Model ----------------------------
(***************************************************************************)
(* A model of parastell.py: the Stellarator class (its configuration       *)
(* dictionaries, its three component builders and its DAGMC export) and    *)
(* the parastell() command-line driver.                                    *)
(*                                                                         *)
(* Every method is one action.  A method body is a sequence of calls into  *)
(* collaborators (the builder classes, the logger, the VMEC reader, the    *)
(* CAD kernel); the calls a method issues are recorded, in order, in       *)
(* `calls`.  Any collaborator call may raise: the parameter k of an        *)
(* action is the index of the call that raises (0: none does).             *)
(***************************************************************************)
EXTENDS Integers, Sequences, FiniteSets, TLC

VARIABLES
    alive,           \* "new": no Stellarator yet, "live": the caller holds one, "dead": __init__ raised
    _logger,         \* Stellarator._logger
    _vmec_file,      \* Stellarator._vmec_file
    vmec,            \* Stellarator.vmec
    invessel_build,  \* Stellarator.invessel_build
    magnet_set,      \* Stellarator.magnet_set
    source_mesh,     \* Stellarator.source_mesh
    ivb_dict,        \* Stellarator.ivb_dict
    magnets_dict,    \* Stellarator.magnets_dict
    source_dict,     \* Stellarator.source_dict
    dagmc_export,    \* Stellarator.dagmc_export
    cubit,           \* the CAD kernel session: the last volume id it gave out
    calls,           \* the collaborator calls issued by the last method, in order
    last,            \* the last method called: its name, argument and outcome
    ncalls,          \* the method calls made on the Stellarator so far
    pc,              \* parastell(): the statement it is at
    trace,           \* parastell(): the statements run so far, each with its outcome and its calls
    yaml             \* parastell(): the configuration read_yaml_config returned

vars == <<alive, _logger, _vmec_file, vmec, invessel_build, magnet_set,
          source_mesh, ivb_dict, magnets_dict, source_dict, dagmc_export,
          cubit, calls, last, ncalls, pc, trace, yaml>>

stellarator == <<_logger, _vmec_file, vmec, invessel_build, magnet_set,
                 source_mesh, ivb_dict, magnets_dict, source_dict,
                 dagmc_export>>

----------------------------------------------------------------------------
(* Bounds of the model.                                                    *)

\* The CAD kernel gives out volume ids 1..MaxVolId.
MaxVolId == 8
\* A magnet set imports as 1..MaxCoilVols volumes.
MaxCoilVols == 2
\* A caller of the library makes at most this many method calls.
MaxCalls == 4

----------------------------------------------------------------------------
(* Python values.                                                          *)

\* Python's None, where a string or a number is expected.
None == "None"
\* An attribute that has not been assigned.
NoAttr == [kind |-> "unset"]
\* An attribute that holds None.
NoneObj == [kind |-> "None"]
\* An attribute that holds a plain value (a string, a path).
Val(v) == [kind |-> "value", v |-> v]
\* A dictionary held in an attribute.
Dict(d) == [kind |-> "dict", d |-> d]
\* Truth value of an attribute in `if self.x:`.
Truthy(obj) == obj.kind \notin {"unset", "None"}

\* utils.m2cm
m2cm == 100

\* An update in which the defaults overwrite the user's values.
Merge_DefaultsWin(def, d) ==
    [key \in (DOMAIN def) \cup (DOMAIN d) |->
        IF key \in DOMAIN def THEN def[key] ELSE d[key]]

\* dict.copy() followed by dict.update(d)
Merge(def, d) ==
    [key \in (DOMAIN def) \cup (DOMAIN d) |->
        IF key \in DOMAIN d THEN d[key] ELSE def[key]]

\* A call into a collaborator.
Call(op, args) == [op |-> op, args |-> args]
NoArgs == [none |-> TRUE]

\* The collaborator calls that report a failure otherwise than by raising:
\* cubit.cmd returns a status (which the code ignores) and the logging calls
\* swallow the errors of their handlers.
NeverRaises == {"cubit.cmd", "logger.info", "logger.error"}
\* Where a method body may be cut short by a collaborator: at no call (0),
\* or at any call that may raise.
RaisePoints(plan) ==
    {0} \cup {i \in 1..Len(plan) : plan[i].op \notin NeverRaises}

\* The calls issued when call k of `plan` raises (k = 0: none raises).
Issued(plan, k) == IF k = 0 THEN plan ELSE SubSeq(plan, 1, k)
\* The number of calls of `plan` that returned.
Returned(plan, k) == IF k = 0 THEN Len(plan) ELSE k - 1
Ops(cs) == [i \in 1..Len(cs) |-> cs[i].op]

Min(S) == CHOOSE x \in S : \A y \in S : x <= y

----------------------------------------------------------------------------
(* pathlib.Path(p).suffix, on a path given as its characters.              *)

RECURSIVE LastIndexOf(_, _)
LastIndexOf(s, c) ==
    IF s = <<>> THEN 0
    ELSE IF s[Len(s)] = c THEN Len(s)
    ELSE LastIndexOf(SubSeq(s, 1, Len(s) - 1), c)

\* The final component of the path.
PathName(p) == SubSeq(p, LastIndexOf(p, "/") + 1, Len(p))

\* The suffix of the final component: from its last dot, unless that dot is
\* its first or its last character.
PathSuffix(p) ==
    LET name == PathName(p)
        i == LastIndexOf(name, ".")
    IN  IF 1 < i /\ i < Len(name) THEN SubSeq(name, i, Len(name)) ELSE <<>>

NcSuffix == <<".", "n", "c">>

\* The paths tried: w.nc, w.x.nc, w.h5, w, .nc, w.NC, d.nc/w, w.nc.b
Paths ==
    { <<"w", ".", "n", "c">>,
      <<"w", ".", "x", ".", "n", "c">>,
      <<"w", ".", "h", "5">>,
      <<"w">>,
      <<".", "n", "c">>,
      <<"w", ".", "N", "C">>,
      <<"d", ".", "n", "c", "/", "w">>,
      <<"w", ".", "n", "c", ".", "b">> }

----------------------------------------------------------------------------
(* Stellarator.__init__ and the two property setters.                      *)

\* The logger objects a caller may pass: None, one without handlers, one with.
LoggerArgs == {None, "no_handlers", "with_handlers"}

\* logger.setter: the calls it issues
logger_setter_calls(logger_object) ==
    IF logger_object = None \/ logger_object = "no_handlers"
    THEN <<Call("log.init", NoArgs)>>
    ELSE <<>>

\* logger.setter: the logger stored once the setter returned
logger_setter_value(logger_object) ==
    IF logger_object = None \/ logger_object = "no_handlers"
    THEN "log.init"
    ELSE logger_object

\* A setter that lets a path without any extension through.
vmec_file_refused_NoSuffixPasses(file) ==
    PathSuffix(file) # NcSuffix /\ PathSuffix(file) # <<>>

\* vmec_file.setter: whether the extension is refused
vmec_file_refused(file) == PathSuffix(file) # NcSuffix

\* vmec_file.setter: the calls it issues
vmec_file_setter_calls(file) ==
    IF vmec_file_refused(file)
    THEN <<Call("logger.error", [suffix |-> PathSuffix(file)])>>
    ELSE <<>>

\* __init__: the calls it issues when none raises
init_calls(file, logger_object) ==
    logger_setter_calls(logger_object)
    \o vmec_file_setter_calls(file)
    \o (IF vmec_file_refused(file) THEN <<>>
        ELSE <<Call("read_vmec.VMECData", [file |-> file])>>)

\* The outcome of a method whose own error (after its calls) is `err`.
Status(k, err) == IF k > 0 THEN "raised" ELSE err

Init ==
    /\ alive = "new"
    /\ _logger = NoAttr
    /\ _vmec_file = NoAttr
    /\ vmec = NoAttr
    /\ invessel_build = NoAttr
    /\ magnet_set = NoAttr
    /\ source_mesh = NoAttr
    /\ ivb_dict = NoAttr
    /\ magnets_dict = NoAttr
    /\ source_dict = NoAttr
    /\ dagmc_export = NoAttr
    /\ cubit = [last_id |-> 0]
    /\ calls = <<>>
    /\ last = [op |-> "none", arg |-> NoArgs, status |-> "ok"]
    /\ ncalls = 0
    /\ pc = "read_yaml_config"
    /\ trace = <<>>
    /\ yaml = NoAttr

\* Stellarator.__init__(vmec_file, logger)
Stellarator_init(file, logger_object) ==
    LET plan == init_calls(file, logger_object)
        nlog == Len(logger_setter_calls(logger_object))
    IN  \E k \in RaisePoints(plan) :
          LET done == Returned(plan, k)
              loggerSet == done >= nlog
              refused == vmec_file_refused(file)
              read == ~refused /\ k = 0
          IN  /\ _logger' = Val(IF loggerSet THEN logger_setter_value(logger_object)
                                ELSE logger_object)
              /\ _vmec_file' = IF loggerSet THEN Val(file) ELSE _vmec_file
              /\ vmec' = IF read THEN [kind |-> "VMECData", file |-> file] ELSE vmec
              /\ invessel_build' = IF read THEN NoneObj ELSE invessel_build
              /\ magnet_set' = IF read THEN NoneObj ELSE magnet_set
              /\ source_mesh' = IF read THEN NoneObj ELSE source_mesh
              /\ calls' = Issued(plan, k)
              /\ last' = [op |-> "__init__", arg |-> [vmec_file |-> file],
                          status |-> Status(k, IF refused THEN "AssertionError" ELSE "ok")]
              /\ UNCHANGED <<ivb_dict, magnets_dict, source_dict, dagmc_export,
                             cubit>>

\* Stellarator.vmec_file = file.  The path is stored before its extension
\* is looked at; a refusal is reported through self._logger, which is None
\* if an assignment of the logger was cut short by log.init().
vmec_file_setter(file) ==
    LET nologger == _logger = Val(None)
        plan == IF nologger THEN <<>> ELSE vmec_file_setter_calls(file)
    IN  \E k \in RaisePoints(plan) :
              /\ _vmec_file' = Val(file)
              /\ calls' = Issued(plan, k)
              /\ last' = [op |-> "vmec_file.setter", arg |-> [vmec_file |-> file],
                          status |-> Status(k, IF ~vmec_file_refused(file) THEN "ok"
                                               ELSE IF nologger THEN "AttributeError"
                                               ELSE "AssertionError")]
              /\ UNCHANGED <<_logger, vmec, invessel_build, magnet_set, source_mesh,
                             ivb_dict, magnets_dict, source_dict, dagmc_export,
                             cubit>>

\* Stellarator.logger = logger_object
logger_setter(logger_object) ==
    LET plan == logger_setter_calls(logger_object)
    IN  \E k \in RaisePoints(plan) :
              /\ _logger' = Val(IF k = 0 THEN logger_setter_value(logger_object)
                                ELSE logger_object)
              /\ calls' = Issued(plan, k)
              /\ last' = [op |-> "logger.setter", arg |-> [logger |-> logger_object],
                          status |-> Status(k, "ok")]
              /\ UNCHANGED <<_vmec_file, vmec, invessel_build, magnet_set,
                             source_mesh, ivb_dict, magnets_dict, source_dict,
                             dagmc_export, cubit>>

----------------------------------------------------------------------------
(* The in-vessel build.                                                    *)

\* set_invessel_build_dict: invessel_build_def
invessel_build_def ==
    [repeat |-> 0, num_ribs |-> 61, num_rib_pts |-> 61, scale |-> m2cm,
     export_cad_to_dagmc |-> FALSE, plasma_mat_tag |-> None,
     sol_mat_tag |-> None, dagmc_filename |-> "dagmc", export_dir |-> ""]

\* The keys construct_invessel_build reads, in the order it reads them.
invessel_build_reads ==
    <<"toroidal_angles", "poloidal_angles", "radial_build", "wall_s",
      "repeat", "num_ribs", "num_rib_pts", "scale", "plasma_mat_tag",
      "sol_mat_tag">>

\* The first key of `keys` that dictionary d lacks (None: it has them all).
RECURSIVE FirstMissing(_, _)
FirstMissing(keys, d) ==
    IF keys = <<>> THEN None
    ELSE IF Head(keys) \notin DOMAIN d THEN Head(keys)
    ELSE FirstMissing(Tail(keys), d)

\* The radial build an InVesselBuild holds: the plasma and the scrape-off
\* layer, then the user's components; a component without a material tag
\* is tagged with its name.  No component has a volume id (0) yet.
InVesselBuild_radial_build(radial_build, plasma_mat_tag, sol_mat_tag) ==
    << [name |-> "plasma", vol_id |-> 0,
        mat_tag |-> IF plasma_mat_tag = None THEN "plasma" ELSE plasma_mat_tag],
       [name |-> "sol", vol_id |-> 0,
        mat_tag |-> IF sol_mat_tag = None THEN "sol" ELSE sol_mat_tag] >>
    \o [i \in 1..Len(radial_build) |->
          [name |-> radial_build[i].name, vol_id |-> 0,
           mat_tag |-> IF radial_build[i].mat_tag = None
                       THEN radial_build[i].name
                       ELSE radial_build[i].mat_tag]]

\* ivb.InVesselBuild(...): the arguments construct_invessel_build passes
InVesselBuild_args(d) ==
    [vmec |-> vmec, toroidal_angles |-> d.toroidal_angles,
     poloidal_angles |-> d.poloidal_angles, radial_build |-> d.radial_build,
     wall_s |-> d.wall_s, repeat |-> d.repeat, num_ribs |-> d.num_ribs,
     num_rib_pts |-> d.num_rib_pts, scale |-> d.scale,
     plasma_mat_tag |-> d.plasma_mat_tag, sol_mat_tag |-> d.sol_mat_tag,
     logger |-> _logger]

\* The InVesselBuild object after the builder steps `steps` returned.
InVesselBuild(args, steps) ==
    [kind |-> "InVesselBuild", scale |-> args.scale, steps |-> steps,
     export_dir |-> None,
     radial_build |-> InVesselBuild_radial_build(
                          args.radial_build, args.plasma_mat_tag, args.sol_mat_tag)]

\* A construct_invessel_build that computes the loci before the surfaces.
invessel_build_steps_LociFirst ==
    <<"calculate_loci", "populate_surfaces", "generate_components">>

\* construct_invessel_build: the builder steps, in the order it calls them
invessel_build_steps ==
    <<"populate_surfaces", "calculate_loci", "generate_components">>

\* construct_invessel_build: the calls it issues when none raises
construct_invessel_build_calls(d) ==
    IF FirstMissing(invessel_build_reads, d) # None THEN <<>>
    ELSE <<Call("InVesselBuild", InVesselBuild_args(d))>>
         \o [i \in 1..Len(invessel_build_steps) |->
                Call(invessel_build_steps[i], NoArgs)]

\* Stellarator.construct_invessel_build(invessel_build)
construct_invessel_build(arg) ==
    LET d == Merge(invessel_build_def, arg)
        plan == construct_invessel_build_calls(d)
    IN  \E k \in RaisePoints(plan) :
          LET issued == Issued(plan, k)
              done == Returned(plan, k)
              missing == FirstMissing(invessel_build_reads, d)
          IN  /\ ivb_dict' = Dict(d)
              /\ invessel_build' =
                    IF done >= 1
                    THEN InVesselBuild(issued[1].args,
                                       [i \in 1..(done - 1) |-> issued[i + 1].op])
                    ELSE invessel_build
              /\ calls' = issued
              /\ last' = [op |-> "construct_invessel_build", arg |-> arg,
                          status |-> Status(k, IF missing # None THEN "KeyError" ELSE "ok")]
              /\ UNCHANGED <<_logger, _vmec_file, vmec, magnet_set, source_mesh,
                             magnets_dict, source_dict, dagmc_export, cubit>>

\* export_invessel_build: the calls it issues when none raises
export_invessel_build_calls(d) ==
    IF ~Truthy(invessel_build) THEN <<>>
    ELSE <<Call("InVesselBuild.export_step", [export_dir |-> d.export_dir])>>
         \o (IF d.export_cad_to_dagmc
             THEN <<Call("InVesselBuild.export_cad_to_dagmc",
                         [filename |-> d.dagmc_filename,
                          export_dir |-> d.export_dir])>>
             ELSE <<>>)

\* Stellarator.export_invessel_build(invessel_build)
export_invessel_build(arg) ==
    LET d == Merge(invessel_build_def, arg)
        plan == export_invessel_build_calls(d)
    IN  \E k \in RaisePoints(plan) :
          LET issued == Issued(plan, k)
              done == Returned(plan, k)
          IN  /\ ivb_dict' = Dict(d)
              /\ invessel_build' =
                    IF done >= 1
                    THEN [invessel_build EXCEPT !.export_dir = d.export_dir]
                    ELSE invessel_build
              /\ calls' = issued
              /\ last' = [op |-> "export_invessel_build", arg |-> arg,
                          status |-> Status(k, IF Truthy(invessel_build) THEN "ok"
                                               ELSE "AttributeError")]
              /\ UNCHANGED <<_logger, _vmec_file, vmec, magnet_set, source_mesh,
                             magnets_dict, source_dict, dagmc_export, cubit>>

----------------------------------------------------------------------------
(* The magnets.                                                            *)

\* set_magnets_dict: magnets_def
magnets_def ==
    [sample_mod |-> 1, scale |-> m2cm, step_filename |-> "magnets",
     mat_tag |-> "magnets", export_mesh |-> FALSE,
     mesh_filename |-> "magnet_mesh", export_dir |-> ""]

\* The keys construct_magnets reads, in the order it reads them.
magnets_reads ==
    <<"coils_file_path", "start_line", "cross_section", "toroidal_extent",
      "sample_mod", "scale", "mat_tag">>

\* mc.MagnetSet(...): the arguments construct_magnets passes
MagnetSet_args(d) ==
    [coils_file_path |-> d.coils_file_path, start_line |-> d.start_line,
     cross_section |-> d.cross_section, toroidal_extent |-> d.toroidal_extent,
     sample_mod |-> d.sample_mod, scale |-> d.scale, mat_tag |-> d.mat_tag,
     logger |-> _logger]

\* The MagnetSet object; it has no volume_ids (the empty set here) until
\* build_magnet_coils has made the coil volumes.
MagnetSet(args, volume_ids) ==
    [kind |-> "MagnetSet", scale |-> args.scale, mat_tag |-> args.mat_tag,
     volume_ids |-> volume_ids]

\* A construct_magnets that looks for the required keys only after the
\* coils are built.
construct_magnets_calls_KeysReadLate(d) ==
    <<Call("MagnetSet", [scale |-> d.scale, mat_tag |-> d.mat_tag]),
      Call("build_magnet_coils", NoArgs)>>

\* construct_magnets: the calls it issues when none raises
construct_magnets_calls(d) ==
    IF FirstMissing(magnets_reads, d) # None THEN <<>>
    ELSE <<Call("MagnetSet", MagnetSet_args(d)),
           Call("build_magnet_coils", NoArgs)>>

\* Stellarator.construct_magnets(magnets); the coils make n volumes
construct_magnets(arg, n) ==
    LET d == Merge(magnets_def, arg)
        plan == construct_magnets_calls(d)
    IN  \E k \in RaisePoints(plan) :
          LET issued == Issued(plan, k)
              done == Returned(plan, k)
              missing == FirstMissing(magnets_reads, d)
              made == IF done >= 2 THEN n ELSE 0
          IN  /\ cubit.last_id + made <= MaxVolId
              /\ magnets_dict' = Dict(d)
              /\ magnet_set' =
                    IF done >= 1
                    THEN MagnetSet(issued[1].args,
                                   (cubit.last_id + 1)..(cubit.last_id + made))
                    ELSE magnet_set
              /\ cubit' = [cubit EXCEPT !.last_id = @ + made]
              /\ calls' = issued
              /\ last' = [op |-> "construct_magnets", arg |-> arg,
                          status |-> Status(k, IF missing # None THEN "KeyError" ELSE "ok")]
              /\ UNCHANGED <<_logger, _vmec_file, vmec, invessel_build, source_mesh,
                             ivb_dict, source_dict, dagmc_export>>

\* export_magnets: the calls it issues when none raises
export_magnets_calls(d) ==
    IF ~Truthy(magnet_set) THEN <<>>
    ELSE <<Call("MagnetSet.export_step", [filename |-> d.step_filename,
                                          export_dir |-> d.export_dir])>>
         \o (IF d.export_mesh
             THEN <<Call("MagnetSet.mesh_magnets", NoArgs),
                    Call("MagnetSet.export_mesh",
                         [filename |-> d.mesh_filename,
                          export_dir |-> d.export_dir])>>
             ELSE <<>>)

\* Stellarator.export_magnets(magnets)
export_magnets(arg) ==
    LET d == Merge(magnets_def, arg)
        plan == export_magnets_calls(d)
    IN  \E k \in RaisePoints(plan) :
          LET issued == Issued(plan, k)
              done == Returned(plan, k)
          IN  /\ magnets_dict' = Dict(d)
              /\ calls' = issued
              /\ last' = [op |-> "export_magnets", arg |-> arg,
                          status |-> Status(k, IF Truthy(magnet_set) THEN "ok"
                                               ELSE "AttributeError")]
              /\ UNCHANGED <<_logger, _vmec_file, vmec, invessel_build, magnet_set,
                             source_mesh, ivb_dict, source_dict, dagmc_export, cubit>>

----------------------------------------------------------------------------
(* The source mesh.                                                        *)

\* set_source_dict: source_def
source_def ==
    [scale |-> m2cm, filename |-> "source_mesh", export_dir |-> ""]

\* The keys construct_source_mesh reads, in the order it reads them.
source_reads ==
    <<"num_s", "num_theta", "num_phi", "toroidal_extent", "scale">>

\* sm.SourceMesh(...): the arguments construct_source_mesh passes
SourceMesh_args(d) ==
    [vmec |-> vmec, num_s |-> d.num_s, num_theta |-> d.num_theta,
     num_phi |-> d.num_phi, toroidal_extent |-> d.toroidal_extent,
     scale |-> d.scale, logger |-> _logger]

\* The SourceMesh object after the builder steps `steps` returned.
SourceMesh(args, steps) ==
    [kind |-> "SourceMesh", scale |-> args.scale, steps |-> steps]

\* construct_source_mesh: the builder steps, in the order it calls them
source_mesh_steps == <<"create_vertices", "create_mesh">>

\* construct_source_mesh: the calls it issues when none raises
construct_source_mesh_calls(d) ==
    IF FirstMissing(source_reads, d) # None THEN <<>>
    ELSE <<Call("SourceMesh", SourceMesh_args(d))>>
         \o [i \in 1..Len(source_mesh_steps) |->
                Call(source_mesh_steps[i], NoArgs)]

\* Stellarator.construct_source_mesh(source)
construct_source_mesh(arg) ==
    LET d == Merge(source_def, arg)
        plan == construct_source_mesh_calls(d)
    IN  \E k \in RaisePoints(plan) :
          LET issued == Issued(plan, k)
              done == Returned(plan, k)
              missing == FirstMissing(source_reads, d)
          IN  /\ source_dict' = Dict(d)
              /\ source_mesh' =
                    IF done >= 1
                    THEN SourceMesh(issued[1].args,
                                    [i \in 1..(done - 1) |-> issued[i + 1].op])
                    ELSE source_mesh
              /\ calls' = issued
              /\ last' = [op |-> "construct_source_mesh", arg |-> arg,
                          status |-> Status(k, IF missing # None THEN "KeyError" ELSE "ok")]
              /\ UNCHANGED <<_logger, _vmec_file, vmec, invessel_build, magnet_set,
                             ivb_dict, magnets_dict, dagmc_export, cubit>>

\* export_source_mesh: the calls it issues when none raises
export_source_mesh_calls(d) ==
    IF ~Truthy(source_mesh) THEN <<>>
    ELSE <<Call("SourceMesh.export_mesh", [filename |-> d.filename,
                                           export_dir |-> d.export_dir])>>

\* An export_source_mesh that keeps its dictionary in the magnets' attribute.
export_source_mesh_SetsMagnetsDict(arg) ==
    LET d == Merge(source_def, arg)
        plan == export_source_mesh_calls(d)
    IN  \E k \in RaisePoints(plan) :
          /\ magnets_dict' = Dict(d)
          /\ calls' = Issued(plan, k)
          /\ last' = [op |-> "export_source_mesh", arg |-> arg,
                      status |-> Status(k, IF Truthy(source_mesh) THEN "ok"
                                           ELSE "AttributeError")]
          /\ UNCHANGED <<_logger, _vmec_file, vmec, invessel_build, magnet_set,
                         source_mesh, ivb_dict, source_dict, dagmc_export, cubit>>

\* Stellarator.export_source_mesh(source)
export_source_mesh(arg) ==
    LET d == Merge(source_def, arg)
        plan == export_source_mesh_calls(d)
    IN  \E k \in RaisePoints(plan) :
          LET issued == Issued(plan, k)
              done == Returned(plan, k)
          IN  /\ source_dict' = Dict(d)
              /\ calls' = issued
              /\ last' = [op |-> "export_source_mesh", arg |-> arg,
                          status |-> Status(k, IF Truthy(source_mesh) THEN "ok"
                                               ELSE "AttributeError")]
              /\ UNCHANGED <<_logger, _vmec_file, vmec, invessel_build, magnet_set,
                             source_mesh, ivb_dict, magnets_dict, dagmc_export, cubit>>

----------------------------------------------------------------------------
(* The DAGMC export.                                                       *)

\* set_dagmc_export: dagmc_export_def
dagmc_export_def ==
    [skip_imprint |-> FALSE, legacy_faceting |-> TRUE,
     faceting_tolerance |-> None, length_tolerance |-> None,
     normal_tolerance |-> None, anisotropic_ratio |-> 100,
     deviation_angle |-> 5, filename |-> "dagmc", export_dir |-> ""]

\* A stretch of a method body: the calls it issues and, after them, the
\* error it raises itself ("ok": none).
Seg(cs, err) == [calls |-> cs, err |-> err]
\* One stretch after another: the second is reached if the first raised nothing.
Then(a, b) ==
    IF a.err # "ok" THEN a ELSE [calls |-> a.calls \o b.calls, err |-> b.err]

\* The ids of a set, ascending: list(volume_ids)
RECURSIVE SetToSeq(_)
SetToSeq(S) ==
    IF S = {} THEN <<>> ELSE <<Min(S)>> \o SetToSeq(S \ {Min(S)})

\* cubit.cmd(...)
Cmd(args) == Call("cubit.cmd", args)

\* cubit_io.import_step_cubit(name, import_dir): the kernel numbers the
\* imported volume with the next id of the session and returns it.
import_step_cubit(name, import_dir, last_id) ==
    Call("import_step_cubit",
         [name |-> name, import_dir |-> import_dir, returns |-> last_id + 1])

\* _import_ivb_step: the calls it issues
import_ivb_step_calls(ivb, last_id) ==
    IF ivb.export_dir = None THEN Seg(<<>>, "AttributeError")
    ELSE Seg([i \in 1..Len(ivb.radial_build) |->
                 import_step_cubit(ivb.radial_build[i].name, ivb.export_dir,
                                   last_id + i - 1)],
             "ok")

\* An _import_ivb_step that gives every imported component the id of the
\* last import.
import_ivb_step_LastIdForAll(radial_build, imports, n) ==
    [i \in 1..Len(radial_build) |->
        IF i <= n
        THEN [radial_build[i] EXCEPT !.vol_id = imports[n].args.returns]
        ELSE radial_build[i]]

\* _import_ivb_step: the radial build once the first n imports returned
import_ivb_step(radial_build, imports, n) ==
    [i \in 1..Len(radial_build) |->
        IF i <= n
        THEN [radial_build[i] EXCEPT !.vol_id = imports[i].args.returns]
        ELSE radial_build[i]]

\* export_dagmc, lines 487-491: the surface merging
merge_calls(d, ivb) ==
    IF d.skip_imprint
    THEN IF Truthy(ivb)
         THEN Seg(<<Call("InVesselBuild.merge_layer_surfaces", NoArgs)>>, "ok")
         ELSE Seg(<<>>, "AttributeError")
    ELSE Seg(<<Cmd([cmd |-> "imprint volume all"]),
               Cmd([cmd |-> "merge volume all"])>>, "ok")

\* _tag_materials_legacy: the magnets' group
tag_magnets_legacy(ms) ==
    IF ~Truthy(ms) THEN Seg(<<>>, "ok")
    ELSE IF ms.volume_ids = {} THEN Seg(<<>>, "AttributeError")
    ELSE Seg(<<Cmd([cmd |-> "group mat: add volume", mat_tag |-> ms.mat_tag,
                    volumes |-> SetToSeq(ms.volume_ids)])>>, "ok")

\* _tag_materials_legacy: the in-vessel components' groups
tag_invessel_legacy(ivb, radial_build) ==
    IF ~Truthy(ivb) THEN Seg(<<>>, "ok")
    ELSE Seg([i \in 1..Len(radial_build) |->
                 Cmd([cmd |-> "group mat: add volume",
                      mat_tag |-> radial_build[i].mat_tag,
                      volumes |-> <<radial_build[i].vol_id>>])],
             "ok")

\* A make_material_block that assigns the material before the block has
\* its volume.
make_material_block_MaterialFirst(mat_tag, block_id, vol_id_str) ==
    <<Cmd([cmd |-> "create material", mat_tag |-> mat_tag]),
      Cmd([cmd |-> "block material", block_id |-> block_id,
           mat_tag |-> mat_tag]),
      Cmd([cmd |-> "block add volume", block_id |-> block_id,
           volumes |-> vol_id_str])>>

\* make_material_block(mat_tag, block_id, vol_id_str)
make_material_block(mat_tag, block_id, vol_id_str) ==
    <<Cmd([cmd |-> "create material", mat_tag |-> mat_tag]),
      Cmd([cmd |-> "block add volume", block_id |-> block_id,
           volumes |-> vol_id_str]),
      Cmd([cmd |-> "block material", block_id |-> block_id,
           mat_tag |-> mat_tag])>>

\* _tag_materials_native: the magnets' block
tag_magnets_native(ms) ==
    IF ~Truthy(ms) THEN Seg(<<>>, "ok")
    ELSE IF ms.volume_ids = {} THEN Seg(<<>>, "AttributeError")
    ELSE Seg(make_material_block(ms.mat_tag, Min(ms.volume_ids),
                                 SetToSeq(ms.volume_ids)), "ok")

RECURSIVE Flatten(_)
Flatten(ss) == IF ss = <<>> THEN <<>> ELSE Head(ss) \o Flatten(Tail(ss))

\* _tag_materials_native: the in-vessel components' blocks
tag_invessel_native(ivb, radial_build) ==
    IF ~Truthy(ivb) THEN Seg(<<>>, "ok")
    ELSE Seg(Flatten([i \in 1..Len(radial_build) |->
                        make_material_block(radial_build[i].mat_tag,
                                            radial_build[i].vol_id,
                                            <<radial_build[i].vol_id>>)]),
             "ok")

\* An export_dagmc that tags for the legacy exporter whatever the faceting.
facet_calls_LegacyTagsAlways(d, ms, ivb, radial_build) ==
    Then(Then(tag_magnets_legacy(ms), tag_invessel_legacy(ivb, radial_build)),
         IF d.legacy_faceting
         THEN Seg(<<Call("export_dagmc_cubit_legacy",
                         [faceting_tolerance |-> d.faceting_tolerance,
                          length_tolerance |-> d.length_tolerance,
                          normal_tolerance |-> d.normal_tolerance,
                          filename |-> d.filename,
                          export_dir |-> d.export_dir])>>, "ok")
         ELSE Seg(<<Call("export_dagmc_cubit_native",
                         [anisotropic_ratio |-> d.anisotropic_ratio,
                          deviation_angle |-> d.deviation_angle,
                          filename |-> d.filename,
                          export_dir |-> d.export_dir])>>, "ok"))

\* export_dagmc, lines 493-509: the tagging and the faceted export
facet_calls(d, ms, ivb, radial_build) ==
    IF d.legacy_faceting
    THEN Then(Then(tag_magnets_legacy(ms), tag_invessel_legacy(ivb, radial_build)),
              Seg(<<Call("export_dagmc_cubit_legacy",
                         [faceting_tolerance |-> d.faceting_tolerance,
                          length_tolerance |-> d.length_tolerance,
                          normal_tolerance |-> d.normal_tolerance,
                          filename |-> d.filename,
                          export_dir |-> d.export_dir])>>, "ok"))
    ELSE Then(Then(Then(Seg(<<Cmd([cmd |-> "set duplicate block elements off"])>>, "ok"),
                        tag_magnets_native(ms)),
                   tag_invessel_native(ivb, radial_build)),
              Seg(<<Call("export_dagmc_cubit_native",
                         [anisotropic_ratio |-> d.anisotropic_ratio,
                          deviation_angle |-> d.deviation_angle,
                          filename |-> d.filename,
                          export_dir |-> d.export_dir])>>, "ok"))

\* export_dagmc, lines 475-479: before the dictionary is set
export_dagmc_prologue ==
    <<Call("init_cubit", NoArgs), Call("logger.info", NoArgs)>>

\* export_dagmc: its whole body, on dictionary d
export_dagmc_body(d, ms, ivb, last_id) ==
    LET imports == IF Truthy(ivb) THEN import_ivb_step_calls(ivb, last_id)
                   ELSE Seg(<<>>, "ok")
        radial_build == IF Truthy(ivb)
                        THEN import_ivb_step(ivb.radial_build, imports.calls,
                                             Len(imports.calls))
                        ELSE <<>>
    IN  Then(Then(Then(Seg(export_dagmc_prologue, "ok"), imports),
                  merge_calls(d, ivb)),
             facet_calls(d, ms, ivb, radial_build))

\* Stellarator.export_dagmc(dagmc_export)
export_dagmc(arg) ==
    LET d == Merge(dagmc_export_def, arg)
        body == export_dagmc_body(d, magnet_set, invessel_build, cubit.last_id)
        plan == body.calls
    IN  \E k \in RaisePoints(plan) :
          LET issued == Issued(plan, k)
              done == Returned(plan, k)
              npro == Len(export_dagmc_prologue)
              imports == IF Truthy(invessel_build)
                         THEN import_ivb_step_calls(invessel_build, cubit.last_id).calls
                         ELSE <<>>
              nimp == IF done - npro < 0 THEN 0
                      ELSE IF done - npro > Len(imports) THEN Len(imports)
                      ELSE done - npro
          IN  /\ cubit.last_id + Len(imports) <= MaxVolId
              /\ dagmc_export' = IF done >= npro THEN Dict(d) ELSE dagmc_export
              /\ invessel_build' =
                    IF Truthy(invessel_build)
                    THEN [invessel_build EXCEPT
                            !.radial_build = import_ivb_step(@, imports, nimp)]
                    ELSE invessel_build
              /\ cubit' = [cubit EXCEPT !.last_id = @ + nimp]
              /\ calls' = issued
              /\ last' = [op |-> "export_dagmc", arg |-> arg,
                          status |-> Status(k, body.err)]
              /\ UNCHANGED <<_logger, _vmec_file, vmec, magnet_set, source_mesh,
                             ivb_dict, magnets_dict, source_dict>>

----------------------------------------------------------------------------
(* The dictionaries a user supplies.                                       *)

\* Dictionary d without one key.
Without(d, key) == [x \in (DOMAIN d) \ {key} |-> d[x]]

\* In-vessel build dictionaries: the required keys alone, every default
\* overridden, and two that lack a required key.
InvesselBuildRequired(radial_build) ==
    [toroidal_angles |-> "0,30", poloidal_angles |-> "0,360",
     radial_build |-> radial_build, wall_s |-> "1.08"]

InvesselBuildDicts ==
    LET one == InvesselBuildRequired(<<[name |-> "fw", mat_tag |-> None]>>)
        two == InvesselBuildRequired(<<[name |-> "fw", mat_tag |-> "steel"],
                                       [name |-> "bl", mat_tag |-> None]>>)
    IN  { one,
          [scale |-> 1, export_dir |-> "out", export_cad_to_dagmc |-> TRUE,
           plasma_mat_tag |-> "Vacuum", num_ribs |-> 11] @@ two,
          Without(one, "wall_s"),
          Without(one, "toroidal_angles") }

MagnetsRequired ==
    [coils_file_path |-> "coils.txt", start_line |-> 3,
     cross_section |-> "circle", toroidal_extent |-> 90]

MagnetsDicts ==
    { MagnetsRequired,
      [scale |-> 1, mat_tag |-> "coil", export_mesh |-> TRUE,
       export_dir |-> "out"] @@ MagnetsRequired,
      Without(MagnetsRequired, "toroidal_extent") }

SourceRequired ==
    [num_s |-> 3, num_theta |-> 4, num_phi |-> 2, toroidal_extent |-> 90]

SourceDicts ==
    { SourceRequired,
      [scale |-> 1, filename |-> "src"] @@ SourceRequired,
      Without(SourceRequired, "num_s") }

DagmcDicts ==
    { <<>>,
      [skip_imprint |-> TRUE, faceting_tolerance |-> "0.01"],
      [legacy_faceting |-> FALSE, anisotropic_ratio |-> 50],
      [skip_imprint |-> TRUE, legacy_faceting |-> FALSE,
       filename |-> "model", export_dir |-> "out"] }

----------------------------------------------------------------------------
(* A caller that uses the class as a library: it creates a Stellarator and *)
(* calls its methods in any order, up to MaxCalls of them.  It catches no  *)
(* exception: one that a method raises ends it.                            *)

\* The caller may call a method.
MayCall == alive = "live" /\ ncalls < MaxCalls

\* What a method call leaves of the caller's own state.
Caller ==
    /\ ncalls' = ncalls + 1
    /\ alive' = IF last'.status = "ok" THEN "live" ELSE "dead"
    /\ UNCHANGED <<pc, trace, yaml>>

NewStellarator ==
    \E file \in Paths, logger_object \in LoggerArgs :
        /\ alive = "new"
        /\ Stellarator_init(file, logger_object)
        /\ alive' = IF last'.status = "ok" THEN "live" ELSE "dead"
        /\ UNCHANGED <<ncalls, pc, trace, yaml>>

ConstructInvesselBuild ==
    \E arg \in InvesselBuildDicts :
        MayCall /\ construct_invessel_build(arg) /\ Caller

ExportInvesselBuild ==
    \E arg \in InvesselBuildDicts :
        MayCall /\ export_invessel_build(arg) /\ Caller

ConstructMagnets ==
    \E arg \in MagnetsDicts, n \in 1..MaxCoilVols :
        MayCall /\ construct_magnets(arg, n) /\ Caller

ExportMagnets ==
    \E arg \in MagnetsDicts :
        MayCall /\ export_magnets(arg) /\ Caller

ConstructSourceMesh ==
    \E arg \in SourceDicts :
        MayCall /\ construct_source_mesh(arg) /\ Caller

ExportSourceMesh ==
    \E arg \in SourceDicts :
        MayCall /\ export_source_mesh(arg) /\ Caller

ExportDagmc ==
    \E arg \in DagmcDicts :
        MayCall /\ export_dagmc(arg) /\ Caller

NextAPI ==
    \/ NewStellarator
    \/ ConstructInvesselBuild
    \/ ExportInvesselBuild
    \/ ConstructMagnets
    \/ ExportMagnets
    \/ ConstructSourceMesh
    \/ ExportSourceMesh
    \/ ExportDagmc

SpecAPI == Init /\ [][NextAPI]_vars

----------------------------------------------------------------------------
(* A caller that configures a Stellarator: it creates one and assigns its  *)
(* vmec_file and logger properties, up to MaxCalls times, catching the     *)
(* exception of an assignment that raises.                                 *)

\* What an assignment leaves of the caller's own state.
Assigner ==
    /\ ncalls' = ncalls + 1
    /\ UNCHANGED <<alive, pc, trace, yaml>>

AssignVmecFile ==
    \E file \in Paths :
        MayCall /\ vmec_file_setter(file) /\ Assigner

AssignLogger ==
    \E logger_object \in LoggerArgs :
        MayCall /\ logger_setter(logger_object) /\ Assigner

NextConfig ==
    \/ NewStellarator
    \/ AssignVmecFile
    \/ AssignLogger

SpecConfig == Init /\ [][NextConfig]_vars

----------------------------------------------------------------------------
(* parastell(): the command-line driver.                                   *)

\* The top-level keys read_yaml_config reads, in the order it reads them.
yaml_reads ==
    <<"vmec_file", "invessel_build", "magnet_coils", "source_mesh",
      "dagmc_export">>

\* The YAML files tried: every combination of the sections above, and one
\* file without each of the top-level keys.
YamlFiles ==
    LET full == [vmec_file : Paths, invessel_build : InvesselBuildDicts,
                 magnet_coils : MagnetsDicts, source_mesh : SourceDicts,
                 dagmc_export : DagmcDicts]
        some == CHOOSE doc \in full : PathSuffix(doc.vmec_file) = NcSuffix
    IN  full \cup {Without(some, yaml_reads[i]) : i \in 1..Len(yaml_reads)}

\* The statements of parastell(), in program order.
parastell_statements ==
    <<"read_yaml_config", "Stellarator", "construct_invessel_build",
      "export_invessel_build", "construct_magnets", "export_magnets",
      "construct_source_mesh", "export_source_mesh", "export_dagmc">>

\* A parastell() without its call of export_invessel_build.
parastell_next_NoInvesselExport(i) ==
    IF i = 3 THEN parastell_statements[5]
    ELSE IF i < Len(parastell_statements) THEN parastell_statements[i + 1]
    ELSE "done"

\* The statement after statement i when it returned.
parastell_next(i) ==
    IF i < Len(parastell_statements) THEN parastell_statements[i + 1]
    ELSE "done"

\* parastell() is at statement i; running it extends the trace, and the
\* exception it may raise is not caught.
At(i) == pc = parastell_statements[i]

\* A parastell() that carries on after a component method raised.
Ran_CarriesOn(i) ==
    /\ trace' = Append(trace, [statement |-> parastell_statements[i],
                               status |-> last'.status, calls |-> calls'])
    /\ pc' = IF last'.status = "ok" \/ i >= 3 THEN parastell_next(i)
             ELSE "raised"

Ran(i) ==
    /\ trace' = Append(trace, [statement |-> parastell_statements[i],
                               status |-> last'.status, calls |-> calls'])
    /\ pc' = IF last'.status = "ok" THEN parastell_next(i) ELSE "raised"

\* read_yaml_config(filename)
read_yaml_config(doc) ==
    LET plan == <<Call("open", NoArgs), Call("yaml.safe_load", NoArgs)>>
        missing == FirstMissing(yaml_reads, doc)
    IN  \E k \in RaisePoints(plan) :
          /\ yaml' = IF k = 0 /\ missing = None THEN Dict(doc) ELSE yaml
          /\ calls' = Issued(plan, k)
          /\ last' = [op |-> "read_yaml_config", arg |-> doc,
                      status |-> Status(k, IF missing # None THEN "KeyError"
                                           ELSE "ok")]
          /\ UNCHANGED <<stellarator, cubit>>

MainReadYamlConfig ==
    \E doc \in YamlFiles :
        /\ At(1)
        /\ read_yaml_config(doc)
        /\ Ran(1)
        /\ UNCHANGED <<alive, ncalls>>

MainStellarator ==
    /\ At(2)
    /\ Stellarator_init(yaml.d.vmec_file, None)
    /\ Ran(2)
    /\ alive' = IF last'.status = "ok" THEN "live" ELSE "dead"
    /\ UNCHANGED <<ncalls, yaml>>

MainConstructInvesselBuild ==
    /\ At(3)
    /\ construct_invessel_build(yaml.d.invessel_build)
    /\ Ran(3)
    /\ UNCHANGED <<alive, ncalls, yaml>>

MainExportInvesselBuild ==
    /\ At(4)
    /\ export_invessel_build(yaml.d.invessel_build)
    /\ Ran(4)
    /\ UNCHANGED <<alive, ncalls, yaml>>

MainConstructMagnets ==
    /\ At(5)
    /\ \E n \in 1..MaxCoilVols : construct_magnets(yaml.d.magnet_coils, n)
    /\ Ran(5)
    /\ UNCHANGED <<alive, ncalls, yaml>>

MainExportMagnets ==
    /\ At(6)
    /\ export_magnets(yaml.d.magnet_coils)
    /\ Ran(6)
    /\ UNCHANGED <<alive, ncalls, yaml>>

MainConstructSourceMesh ==
    /\ At(7)
    /\ construct_source_mesh(yaml.d.source_mesh)
    /\ Ran(7)
    /\ UNCHANGED <<alive, ncalls, yaml>>

MainExportSourceMesh ==
    /\ At(8)
    /\ export_source_mesh(yaml.d.source_mesh)
    /\ Ran(8)
    /\ UNCHANGED <<alive, ncalls, yaml>>

MainExportDagmc ==
    /\ At(9)
    /\ export_dagmc(yaml.d.dagmc_export)
    /\ Ran(9)
    /\ UNCHANGED <<alive, ncalls, yaml>>

\* parastell()
parastell ==
    \/ MainReadYamlConfig
    \/ MainStellarator
    \/ MainConstructInvesselBuild
    \/ MainExportInvesselBuild
    \/ MainConstructMagnets
    \/ MainExportMagnets
    \/ MainConstructSourceMesh
    \/ MainExportSourceMesh
    \/ MainExportDagmc

Next == parastell

Spec == Init /\ [][Next]_vars

----------------------------------------------------------------------------
(* Properties.                                                             *)

\* The names of the calls in a sequence of calls.
OpSet(cs) == {cs[i].op : i \in 1..Len(cs)}
\* The positions of the calls named op.
Positions(cs, op) == {i \in 1..Len(cs) : cs[i].op = op}

\* C1: creating a Stellarator with a vmec_file whose extension is not '.nc'
\* fails: the error is logged and then raised as an AssertionError (or the
\* default logger could not even be made), the VMEC data are not read, and
\* invessel_build, magnet_set and source_mesh are never assigned.
C1_WrongExtensionIsFatal ==
    (last.op = "__init__" /\ PathSuffix(last.arg.vmec_file) # <<".", "n", "c">>)
    => /\ last.status \in {"AssertionError", "raised"}
       /\ alive = "dead"
       /\ last.status = "AssertionError"
            => /\ calls # <<>>
               /\ calls[Len(calls)].op = "logger.error"
               /\ calls[Len(calls)].args.suffix = PathSuffix(last.arg.vmec_file)
       /\ last.status = "raised" => Ops(calls) = <<"log.init">>
       /\ "read_vmec.VMECData" \notin OpSet(calls)
       /\ vmec = NoAttr
       /\ invessel_build = NoAttr
       /\ magnet_set = NoAttr
       /\ source_mesh = NoAttr

\* C1, its case: a Stellarator was created on w.NC, and the error was
\* logged and raised.
C1_Witness ==
    /\ last.op = "__init__"
    /\ last.arg.vmec_file = <<"w", ".", "N", "C">>
    /\ last.status = "AssertionError"
    /\ Ops(calls) = <<"log.init", "logger.error">>

\* Every collaborator call of the run of parastell() so far, in order.
RECURSIVE CallsOf(_)
CallsOf(t) == IF t = <<>> THEN <<>> ELSE Head(t).calls \o CallsOf(Tail(t))
TraceCalls == CallsOf(trace)

\* The builder steps and the exporting calls of each component.
InvesselGeometry ==
    {"populate_surfaces", "calculate_loci", "generate_components",
     "InVesselBuild.export_step", "InVesselBuild.export_cad_to_dagmc"}
MagnetsGeometry ==
    {"build_magnet_coils", "MagnetSet.export_step", "MagnetSet.mesh_magnets",
     "MagnetSet.export_mesh"}
SourceGeometry == {"create_vertices", "create_mesh", "SourceMesh.export_mesh"}
DagmcGeometry ==
    {"import_step_cubit", "InVesselBuild.merge_layer_surfaces",
     "export_dagmc_cubit_legacy", "export_dagmc_cubit_native"}
Constructors == {"InVesselBuild", "MagnetSet", "SourceMesh"}

\* parastell() ended on a KeyError.
MissingKeyRaised == pc = "raised" /\ last.status = "KeyError"
\* The statement that raised.
Raiser == trace[Len(trace)].statement

\* C2 as stated: when a missing required key aborts the run of parastell(),
\* no builder step of any component and no export has run.
C2_NoGeometryBeforeMissingKey ==
    MissingKeyRaised
    => OpSet(TraceCalls) \cap (InvesselGeometry \cup MagnetsGeometry
                               \cup SourceGeometry \cup DagmcGeometry) = {}

\* C2 as amended: a missing required key aborts the run before the
\* component it belongs to is built or exported, and before every later
\* component; the components before it have been built and exported.  The
\* statement that raises issues no builder call at all, and leaves its
\* component's attribute None.
C2_MissingKeyBeforeOwnComponent ==
    MissingKeyRaised
    => /\ Raiser \in {"read_yaml_config", "construct_invessel_build",
                      "construct_magnets", "construct_source_mesh"}
       /\ OpSet(calls) \cap Constructors = {}
       /\ Raiser = "read_yaml_config"
            => OpSet(TraceCalls) \subseteq {"open", "yaml.safe_load"}
       /\ Raiser = "construct_invessel_build"
            => /\ invessel_build = NoneObj
               /\ OpSet(TraceCalls) \cap (InvesselGeometry \cup MagnetsGeometry
                      \cup SourceGeometry \cup DagmcGeometry) = {}
       /\ Raiser = "construct_magnets"
            => /\ magnet_set = NoneObj
               /\ OpSet(TraceCalls) \cap (MagnetsGeometry \cup SourceGeometry
                                          \cup DagmcGeometry) = {}
               /\ {"generate_components", "InVesselBuild.export_step"}
                     \subseteq OpSet(TraceCalls)
       /\ Raiser = "construct_source_mesh"
            => /\ source_mesh = NoneObj
               /\ OpSet(TraceCalls) \cap (SourceGeometry \cup DagmcGeometry) = {}
               /\ {"generate_components", "InVesselBuild.export_step",
                   "build_magnet_coils", "MagnetSet.export_step"}
                     \subseteq OpSet(TraceCalls)

\* C2, its case: the magnets dictionary lacks a required key, and the run
\* ends on the KeyError of construct_magnets.
C2_Witness ==
    /\ MissingKeyRaised
    /\ Raiser = "construct_magnets"
    /\ "toroidal_extent" \notin DOMAIN yaml.d.magnet_coils

\* C3: the run of parastell() is fail-fast: a statement that fails is the
\* last one run, its failure is the outcome of the run, and no statement
\* runs twice.
C3_FailFast ==
    /\ \A i \in 1..Len(trace) : i < Len(trace) => trace[i].status = "ok"
    /\ \A i, j \in 1..Len(trace) :
          i < j => trace[i].statement # trace[j].statement
    /\ Len(trace) > 0
         => /\ trace[Len(trace)].status = last.status
            /\ trace[Len(trace)].calls = calls
            /\ (trace[Len(trace)].status # "ok") <=> (pc = "raised")

\* C3, its case: export_magnets failed in a collaborator, and the run ended
\* there, with no source mesh made.
C3_Witness ==
    /\ pc = "raised"
    /\ Len(trace) = 6
    /\ trace[6].statement = "export_magnets"
    /\ trace[6].status = "raised"
    /\ source_mesh = NoneObj

\* The first and the last position of a call in the run (0: never called).
First(op) == IF Positions(TraceCalls, op) = {} THEN 0
             ELSE Min(Positions(TraceCalls, op))
Count(op) == Cardinality(Positions(TraceCalls, op))
\* If b was called, a was called before every call of b.
Precedes(a, b) ==
    \A j \in Positions(TraceCalls, b) : First(a) # 0 /\ First(a) < j

\* C4: parastell() runs its statements one after another in the fixed
\* order; each component is built once; each export comes after its
\* component's construction; the STEP import of the DAGMC export comes
\* after the in-vessel STEP export.
C4_FixedOrder ==
    LET order == <<"read_yaml_config", "Stellarator",
                   "construct_invessel_build", "export_invessel_build",
                   "construct_magnets", "export_magnets",
                   "construct_source_mesh", "export_source_mesh",
                   "export_dagmc">>
    IN  /\ Len(trace) <= Len(order)
        /\ \A i \in 1..Len(trace) : trace[i].statement = order[i]
        /\ pc = "done" => Len(trace) = Len(order)
        /\ \A op \in Constructors \cup {"populate_surfaces", "calculate_loci",
                     "generate_components", "build_magnet_coils",
                     "create_vertices", "create_mesh"} :
              /\ Count(op) <= 1
              /\ pc = "done" => Count(op) = 1
        /\ Precedes("generate_components", "InVesselBuild.export_step")
        /\ Precedes("build_magnet_coils", "MagnetSet.export_step")
        /\ Precedes("create_mesh", "SourceMesh.export_mesh")
        /\ Precedes("InVesselBuild.export_step", "MagnetSet")
        /\ Precedes("MagnetSet.export_step", "SourceMesh")
        /\ Precedes("SourceMesh.export_mesh", "init_cubit")
        /\ Precedes("InVesselBuild.export_step", "import_step_cubit")

\* C4, its case: a run of parastell() that reached its end.
C4_Witness ==
    /\ pc = "done"
    /\ "import_step_cubit" \in OpSet(TraceCalls)

\* s is an initial part of t.
IsPrefix(s, t) == Len(s) <= Len(t) /\ s = SubSeq(t, 1, Len(s))

\* The pipeline of each construct operation: the builder object, then its
\* steps.
Pipeline(op) ==
    CASE op = "construct_invessel_build" ->
            <<"InVesselBuild", "populate_surfaces", "calculate_loci",
              "generate_components">>
      [] op = "construct_magnets" -> <<"MagnetSet", "build_magnet_coils">>
      [] op = "construct_source_mesh" ->
            <<"SourceMesh", "create_vertices", "create_mesh">>

\* C5: a construct operation calls its builder steps in the pipeline order,
\* each once, after the builder object exists; a call that returns has run
\* the whole pipeline, and one that fails has run it up to the step that
\* failed and no further.
C5_BuilderStepsInOrder ==
    last.op \in {"construct_invessel_build", "construct_magnets",
                 "construct_source_mesh"}
    => /\ IsPrefix(Ops(calls), Pipeline(last.op))
       /\ last.status \in {"ok", "KeyError", "raised"}
       /\ last.status = "ok" => Ops(calls) = Pipeline(last.op)
       /\ last.status = "KeyError" => calls = <<>>
       /\ last.status = "raised" => calls # <<>>
       /\ (last.op = "construct_invessel_build" /\ Len(calls) >= 2)
            => invessel_build.steps =
                  SubSeq(Pipeline(last.op), 2,
                         IF last.status = "ok" THEN 4 ELSE Len(calls) - 1)
       /\ (last.op = "construct_source_mesh" /\ Len(calls) >= 2)
            => source_mesh.steps =
                  SubSeq(Pipeline(last.op), 2,
                         IF last.status = "ok" THEN 3 ELSE Len(calls) - 1)

\* C5, its case: calculate_loci failed; generate_components was not reached.
C5_Witness ==
    /\ last.op = "construct_invessel_build"
    /\ last.status = "raised"
    /\ Ops(calls) = <<"InVesselBuild", "populate_surfaces", "calculate_loci">>
    /\ invessel_build.steps = <<"populate_surfaces">>

\* The dictionary in attribute attr holds the user's value for every key of
\* arg and the default for every other key of defaults.
HoldsUserThenDefault(attr, arg, defaults) ==
    /\ attr.kind = "dict"
    /\ DOMAIN attr.d = (DOMAIN arg) \cup (DOMAIN defaults)
    /\ \A key \in DOMAIN attr.d :
          attr.d[key] = IF key \in DOMAIN arg THEN arg[key] ELSE defaults[key]

\* The defaults as the docstrings of the four methods document them.
DocumentedDefaults(op) ==
    CASE op \in {"construct_invessel_build", "export_invessel_build"} ->
            [repeat |-> 0, num_ribs |-> 61, num_rib_pts |-> 61, scale |-> 100,
             export_cad_to_dagmc |-> FALSE, plasma_mat_tag |-> "None",
             sol_mat_tag |-> "None", dagmc_filename |-> "dagmc",
             export_dir |-> ""]
      [] op \in {"construct_magnets", "export_magnets"} ->
            [sample_mod |-> 1, scale |-> 100, step_filename |-> "magnets",
             mat_tag |-> "magnets", export_mesh |-> FALSE,
             mesh_filename |-> "magnet_mesh", export_dir |-> ""]
      [] op \in {"construct_source_mesh", "export_source_mesh"} ->
            [scale |-> 100, filename |-> "source_mesh", export_dir |-> ""]
      [] op = "export_dagmc" ->
            [skip_imprint |-> FALSE, legacy_faceting |-> TRUE,
             faceting_tolerance |-> "None", length_tolerance |-> "None",
             normal_tolerance |-> "None", anisotropic_ratio |-> 100,
             deviation_angle |-> 5, filename |-> "dagmc", export_dir |-> ""]

\* C6: after a method set its dictionary, the dictionary holds the user's
\* value for every key given and the documented default for every other
\* default key; without a 'scale' the builder object is made with scale 100.
C6_UserValuesThenDefaults ==
    /\ last.op \in {"construct_invessel_build", "export_invessel_build"}
         => HoldsUserThenDefault(ivb_dict, last.arg, DocumentedDefaults(last.op))
    /\ last.op \in {"construct_magnets", "export_magnets"}
         => HoldsUserThenDefault(magnets_dict, last.arg, DocumentedDefaults(last.op))
    /\ last.op \in {"construct_source_mesh", "export_source_mesh"}
         => HoldsUserThenDefault(source_dict, last.arg, DocumentedDefaults(last.op))
    /\ (last.op = "export_dagmc" /\ "logger.info" \in OpSet(calls))
         => HoldsUserThenDefault(dagmc_export, last.arg, DocumentedDefaults(last.op))
    /\ (/\ last.op \in {"construct_invessel_build", "construct_magnets",
                        "construct_source_mesh"}
        /\ calls # <<>>)
         => /\ calls[1].args.scale =
                  IF "scale" \in DOMAIN last.arg THEN last.arg.scale ELSE 100
            /\ Len(calls) >= 2 =>
                  (CASE last.op = "construct_invessel_build" -> invessel_build
                     [] last.op = "construct_magnets" -> magnet_set
                     [] last.op = "construct_source_mesh" -> source_mesh).scale
                  = calls[1].args.scale

\* C6, its case: the three components were built from dictionaries without
\* 'scale', all with scale 100.
C6_Witness ==
    /\ last.op = "construct_source_mesh"
    /\ last.status = "ok"
    /\ "scale" \notin DOMAIN last.arg
    /\ Truthy(invessel_build)
    /\ Truthy(magnet_set)
    /\ invessel_build.scale = 100 /\ magnet_set.scale = 100
    /\ source_mesh.scale = 100
    /\ ivb_dict.d.num_ribs = 61 /\ magnets_dict.d.sample_mod = 1

\* The positions in cs of the cubit commands named in `names`.
CmdPositions(cs, names) ==
    {i \in 1..Len(cs) : cs[i].op = "cubit.cmd" /\ cs[i].args.cmd \in names}
\* The positions in cs of the calls named in `names`.
OpPositions(cs, names) == {i \in 1..Len(cs) : cs[i].op \in names}
\* Every position of A is before every position of B.
AllBefore(A, B) == \A i \in A, j \in B : i < j

LegacyTagging == CmdPositions(calls, {"group mat: add volume"})
NativeTagging ==
    CmdPositions(calls, {"set duplicate block elements off", "create material",
                         "block add volume", "block material"})
Exporters ==
    OpPositions(calls, {"export_dagmc_cubit_legacy", "export_dagmc_cubit_native"})
StepImports == OpPositions(calls, {"import_step_cubit"})
LayerMerges == OpPositions(calls, {"InVesselBuild.merge_layer_surfaces"})
GlobalImprints == CmdPositions(calls, {"imprint volume all"})
GlobalMerges == CmdPositions(calls, {"merge volume all"})

\* export_dagmc got as far as the merging of surfaces: cubit started and,
\* where there is an in-vessel build, all its STEP files were imported.
MergingReached ==
    /\ last.op = "export_dagmc"
    /\ "logger.info" \in OpSet(calls)
    /\ Truthy(invessel_build)
         => /\ invessel_build.export_dir # None
            /\ Cardinality(StepImports) = Len(invessel_build.radial_build)
            /\ ~(last.status = "raised"
                 /\ calls[Len(calls)].op = "import_step_cubit")

\* C7: an export_dagmc call that gets to the merging of surfaces performs
\* exactly one of the two strategies: with skip_imprint, one call of
\* merge_layer_surfaces and no global imprint or merge command; without it,
\* one global imprint command then one global merge command and no call of
\* merge_layer_surfaces; in both cases after the STEP imports and before any
\* tagging or faceted export.
C7_ExactlyOneMergingStrategy ==
    MergingReached
    => /\ dagmc_export.d.skip_imprint
            => /\ Cardinality(LayerMerges) = 1
               /\ GlobalImprints = {} /\ GlobalMerges = {}
       /\ ~dagmc_export.d.skip_imprint
            => /\ Cardinality(GlobalImprints) = 1
               /\ Cardinality(GlobalMerges) = 1
               /\ AllBefore(GlobalImprints, GlobalMerges)
               /\ LayerMerges = {}
       /\ AllBefore(StepImports, LayerMerges \cup GlobalImprints \cup GlobalMerges)
       /\ AllBefore(LayerMerges \cup GlobalImprints \cup GlobalMerges,
                    LegacyTagging \cup NativeTagging \cup Exporters)

\* C8: an export_dagmc call uses at most one faceted exporter, exactly one
\* when it returns; the tagging commands are those of the exporter that
\* legacy_faceting selects (legacy by default) and all precede the export;
\* the exporter receives its own tolerances and the filename and export_dir
\* of the merged dictionary.
C8_TaggingMatchesFaceting ==
    (last.op = "export_dagmc" /\ "logger.info" \in OpSet(calls))
    => LET d == dagmc_export.d
           legacy == IF "legacy_faceting" \in DOMAIN last.arg
                     THEN last.arg.legacy_faceting ELSE TRUE
           filename == IF "filename" \in DOMAIN last.arg
                       THEN last.arg.filename ELSE "dagmc"
           export_dir == IF "export_dir" \in DOMAIN last.arg
                         THEN last.arg.export_dir ELSE ""
       IN  /\ Cardinality(Exporters) <= 1
           /\ last.status = "ok" => Exporters = {Len(calls)}
           /\ legacy => NativeTagging = {}
           /\ ~legacy => LegacyTagging = {}
           /\ AllBefore(LegacyTagging \cup NativeTagging, Exporters)
           /\ (Exporters # {} /\ (Truthy(magnet_set) \/ Truthy(invessel_build)))
                => LegacyTagging \cup NativeTagging # {}
           /\ (Exporters # {} /\ ~legacy)
                => \E i \in NativeTagging :
                      calls[i].args.cmd = "set duplicate block elements off"
           /\ \A i \in Exporters :
                 /\ calls[i].op = IF legacy THEN "export_dagmc_cubit_legacy"
                                  ELSE "export_dagmc_cubit_native"
                 /\ calls[i].args =
                      IF legacy
                      THEN [faceting_tolerance |-> d.faceting_tolerance,
                            length_tolerance |-> d.length_tolerance,
                            normal_tolerance |-> d.normal_tolerance,
                            filename |-> filename, export_dir |-> export_dir]
                      ELSE [anisotropic_ratio |-> d.anisotropic_ratio,
                            deviation_angle |-> d.deviation_angle,
                            filename |-> filename, export_dir |-> export_dir]

\* C8, its case: a native export of an in-vessel build and a magnet set,
\* tagged with material blocks.
C8_Witness ==
    /\ last.op = "export_dagmc"
    /\ last.status = "ok"
    /\ last.arg = [legacy_faceting |-> FALSE, anisotropic_ratio |-> 50]
    /\ Truthy(magnet_set) /\ Truthy(invessel_build)
    /\ calls[Len(calls)].op = "export_dagmc_cubit_native"
    /\ calls[Len(calls)].args.anisotropic_ratio = 50
    /\ Cardinality(CmdPositions(calls, {"create material"})) = 4

\* C9: a construct or export call of one component leaves the builder
\* objects and the dictionaries of the other two components as they were,
\* and no such call changes the VMEC data object, in any order of calls.
C9_ComponentsShareNoState ==
    [][ /\ last'.op \in {"construct_invessel_build", "export_invessel_build"}
            => UNCHANGED <<magnet_set, source_mesh, magnets_dict, source_dict>>
        /\ last'.op \in {"construct_magnets", "export_magnets"}
            => UNCHANGED <<invessel_build, source_mesh, ivb_dict, source_dict>>
        /\ last'.op \in {"construct_source_mesh", "export_source_mesh"}
            => UNCHANGED <<invessel_build, magnet_set, ivb_dict, magnets_dict>>
        /\ last'.op \in {"construct_invessel_build", "export_invessel_build",
                         "construct_magnets", "export_magnets",
                         "construct_source_mesh", "export_source_mesh"}
            => UNCHANGED <<vmec, _vmec_file>>
      ]_vars

\* C9, its case: the source mesh is exported with its own dictionary while
\* an in-vessel build and a magnet set exist with theirs.
C9_Witness ==
    /\ last.op = "export_source_mesh"
    /\ last.status = "ok"
    /\ last.arg = [scale |-> 1, filename |-> "src"] @@ SourceRequired
    /\ Truthy(invessel_build) /\ Truthy(magnet_set)
    /\ ivb_dict.kind = "dict" /\ magnets_dict.kind = "dict"
    /\ magnets_dict.d.scale = 100 /\ source_dict.d.scale = 1
    /\ vmec.kind = "VMECData"

\* The elements of a sequence.
Range(s) == {s[i] : i \in 1..Len(s)}

\* What the tagging commands of the call say: material tag mat_tag is put
\* on the volumes `volumes` by the command at position `at`.  A legacy
\* group command says so itself; a native block says so by its two
\* commands on one block id.
TagPairs ==
    {[mat_tag |-> calls[i].args.mat_tag, volumes |-> calls[i].args.volumes,
      at |-> i] : i \in LegacyTagging}
    \cup
    {[mat_tag |-> calls[p[2]].args.mat_tag, volumes |-> calls[p[1]].args.volumes,
      at |-> p[1]] :
        p \in {q \in CmdPositions(calls, {"block add volume"})
                     \X CmdPositions(calls, {"block material"}) :
                 calls[q[1]].args.block_id = calls[q[2]].args.block_id}}

\* The material tags of the radial-build components of that name.
OwnTags(name) ==
    {c.mat_tag : c \in {x \in Range(invessel_build.radial_build) : x.name = name}}

\* C10: in an export_dagmc call every STEP import precedes every tagging
\* command; when tagging starts every radial-build component holds the id
\* its own import returned; each tagging command puts either a component's
\* own material tag on the volume that component's import returned in this
\* call, or the magnet set's tag on all the magnet volume ids at once; no
\* volume is tagged twice.
C10_TagsPairOwnVolumes ==
    last.op = "export_dagmc"
    => /\ AllBefore(StepImports, LegacyTagging \cup NativeTagging)
       /\ (Truthy(invessel_build) /\ LegacyTagging \cup NativeTagging # {})
            => \A c \in Range(invessel_build.radial_build) :
                  \E i \in StepImports :
                     /\ calls[i].args.name = c.name
                     /\ calls[i].args.returns = c.vol_id
       /\ \A p \in TagPairs :
             \/ /\ Truthy(magnet_set)
                /\ p.mat_tag = magnet_set.mat_tag
                /\ Range(p.volumes) = magnet_set.volume_ids
             \/ /\ Truthy(invessel_build)
                /\ \E i \in StepImports :
                      /\ i < p.at
                      /\ p.volumes = <<calls[i].args.returns>>
                      /\ p.mat_tag \in OwnTags(calls[i].args.name)
       /\ \A p, q \in TagPairs :
             p.at # q.at => Range(p.volumes) \cap Range(q.volumes) = {}
       /\ \A j \in CmdPositions(calls, {"block material"}) :
             \E p \in TagPairs : p.at = j - 1
       /\ Exporters # {}
            => /\ Truthy(magnet_set)
                    => Cardinality({p \in TagPairs :
                          Range(p.volumes) = magnet_set.volume_ids}) = 1
               /\ \A i \in StepImports :
                     Cardinality({p \in TagPairs :
                          p.volumes = <<calls[i].args.returns>>}) = 1

\* C10, its case: an export of a four-layer in-vessel build and a magnet set
\* of two volumes, tagged for the legacy exporter.
C10_Witness ==
    /\ last.op = "export_dagmc"
    /\ last.status = "ok"
    /\ Truthy(magnet_set) /\ Truthy(invessel_build)
    /\ Cardinality(magnet_set.volume_ids) = 2
    /\ Len(invessel_build.radial_build) = 4
    /\ Cardinality(StepImports) = 4
    /\ Cardinality(TagPairs) = 5
    /\ LegacyTagging # {}

\* The tagging commands that tag the magnet set's volumes.
MagnetTagPairs ==
    {p \in TagPairs :
        Truthy(magnet_set) /\ Range(p.volumes) = magnet_set.volume_ids}

\* C11: export_dagmc invokes nothing on a component that is not set: without
\* an in-vessel build it imports no STEP file, merges no layer surfaces,
\* tags no in-vessel volume and raises no AttributeError; without a magnet
\* set it tags no magnet volume.
C11_OnlySetComponentsAccessed ==
    last.op = "export_dagmc"
    => /\ ~Truthy(invessel_build)
            => /\ StepImports = {}
               /\ LayerMerges = {}
               /\ TagPairs \subseteq MagnetTagPairs
               /\ last.status # "AttributeError"
       /\ ~Truthy(magnet_set)
            => \A p \in TagPairs :
                  \E i \in StepImports : p.volumes = <<calls[i].args.returns>>

BlockCreates == CmdPositions(calls, {"create material"})
BlockAdds == CmdPositions(calls, {"block add volume"})
BlockMaterials == CmdPositions(calls, {"block material"})

\* C12: in native tagging every block is made by three commands in the
\* order create material, add volume(s) to block, assign material to block;
\* its block id is one of its own volumes (the least magnet volume id for
\* the magnet block, the component's vol_id for an in-vessel block); no two
\* blocks of a call share a block id, and no volume is in two blocks.
C12_NativeBlocks ==
    last.op = "export_dagmc"
    => /\ \A i \in BlockAdds :
             /\ calls[i].args.block_id \in Range(calls[i].args.volumes)
             /\ i - 1 \in BlockCreates
             /\ i + 1 \in BlockMaterials
             /\ calls[i + 1].args.block_id = calls[i].args.block_id
             /\ calls[i + 1].args.mat_tag = calls[i - 1].args.mat_tag
             /\ \/ /\ Truthy(magnet_set)
                   /\ Range(calls[i].args.volumes) = magnet_set.volume_ids
                   /\ calls[i].args.block_id = Min(magnet_set.volume_ids)
                \/ /\ Truthy(invessel_build)
                   /\ calls[i].args.volumes = <<calls[i].args.block_id>>
                   /\ \E c \in Range(invessel_build.radial_build) :
                         c.vol_id = calls[i].args.block_id
       /\ \A i \in BlockCreates : i + 1 \in BlockAdds
       /\ \A i \in BlockMaterials : i - 1 \in BlockAdds
       /\ \A i, j \in BlockAdds :
             i # j => /\ calls[i].args.block_id # calls[j].args.block_id
                      /\ Range(calls[i].args.volumes)
                           \cap Range(calls[j].args.volumes) = {}

\* C12, its case: a native export that makes a block of two magnet volumes
\* and a block for each of four in-vessel layers.
C12_Witness ==
    /\ last.op = "export_dagmc"
    /\ last.status = "ok"
    /\ Cardinality(BlockAdds) = 5
    /\ Truthy(magnet_set) /\ Cardinality(magnet_set.volume_ids) = 2
    /\ Truthy(invessel_build) /\ Len(invessel_build.radial_build) = 4
    /\ calls[Len(calls)].op = "export_dagmc_cubit_native"

\* C13: the stored vmec_file of a Stellarator always has the suffix '.nc':
\* an assignment that is refused leaves the stored path as it was, and a
\* refusal is always reported through an initialised logger.
C13_StoredFileAlwaysNc ==
    [][ alive' = "live"
        => /\ PathSuffix(_vmec_file'.v) = <<".", "n", "c">>
           /\ (last'.op = "vmec_file.setter" /\ last'.status # "ok")
                => /\ _vmec_file' = _vmec_file
                   /\ last'.status = "AssertionError"
                   /\ Ops(calls') = <<"logger.error">>
      ]_vars

====
